---- MODULE Spec2Model ----
(***************************************************************************)
(* A model of q_dms_ttr_paper/data_processing.py: the trimming utilities,  *)
(* the three reactivity extractors, the processors' clean and process      *)
(* phases and the batch Mg 1/2 computation, and of find_stretches of       *)
(* q_dms_ttr_paper/plotting.py.                                            *)
(*                                                                         *)
(* A table (pandas DataFrame) is a sequence of row records.  A nucleotide  *)
(* sequence or a dot-bracket structure is a sequence of one-character      *)
(* strings.  A reactivity vector (`data`) is a sequence of integers.       *)
(***************************************************************************)
EXTENDS Integers, Sequences, FiniteSets, TLC

VARIABLES
    df,        \* the table the operation works on (self.df, or the df argument)
    input,     \* the table as it was when the operation was called
    pc,        \* where the call is: "start", then "done", "raised" or "exited"
    args,      \* the arguments of the call
    result,    \* what the call returned (all_data, or the result table)
    log,       \* the messages logged so far and, last, the error raised
    calls      \* the calls made to the curve fitter so far

vars == <<df, input, pc, args, result, log, calls>>

(***************************************************************************)
(* Bounds of the model.                                                    *)
(***************************************************************************)
MaxRows == 2
MaxTrim == 2
MaxP5 == 2

(***************************************************************************)
(* Python helpers.                                                         *)
(***************************************************************************)
Min(a, b) == IF a < b THEN a ELSE b
Max(a, b) == IF a > b THEN a ELSE b

\* The index Python's slice uses for bound n on a list of length L: a negative
\* bound counts from the end, and both are clipped to 0..L.
PyIdx(n, L) == IF n < 0 THEN Max(L + n, 0) ELSE Min(n, L)

\* x[lo:hi]
Slice(x, lo, hi) == SubSeq(x, PyIdx(lo, Len(x)) + 1, PyIdx(hi, Len(x)))

\* x[lo:]
SliceFrom(x, lo) == SubSeq(x, PyIdx(lo, Len(x)) + 1, Len(x))

\* [v] * n
Repeat(v, n) == [k \in 1..n |-> v]

\* s.count(c)
Count(s, c) == Cardinality({k \in DOMAIN s : s[k] = c})

\* s.startswith(p)
StartsWith(s, p) == Len(p) <= Len(s) /\ SubSeq(s, 1, Len(p)) = p

\* The element of a one-element set.
Only(S) == CHOOSE x \in S : TRUE

\* all sequences over S of length 0..n
SeqsUpTo(S, n) == UNION {[1..k -> S] : k \in 0..n}

\* log.info(msg), log.error(msg), and the message of a raised error
Info(msg) == [level |-> "info", msg |-> msg]
Error(msg) == [level |-> "error", msg |-> msg]
Raised(msg) == [level |-> "raised", msg |-> msg]

(***************************************************************************)
(* seq_tools (external): trim, to_rna, has_5p_sequence.                    *)
(***************************************************************************)
\* seq_tools.trim: drops the first `start` and the last `end` characters of
\* `sequence` and `structure` in every row.
seq_ss_trim(d, start, end) ==
    [k \in DOMAIN d |->
        [d[k] EXCEPT !.sequence = SubSeq(@, start + 1, Len(@) - end),
                     !.structure = SubSeq(@, start + 1, Len(@) - end)]]

\* seq_tools.to_rna on one sequence: every T becomes U.
to_rna_seq(s) == [k \in DOMAIN s |-> IF s[k] = "T" THEN "U" ELSE s[k]]

\* seq_tools.to_rna on a table.
to_rna(d) == [k \in DOMAIN d |-> [d[k] EXCEPT !.sequence = to_rna_seq(@)]]

\* seq_tools.has_5p_sequence: every row's sequence starts with p5_seq.
has_5p_sequence(d, p5_seq) ==
    \A k \in DOMAIN d : StartsWith(d[k].sequence, p5_seq)

(***************************************************************************)
(* trim (data_processing.py:33-50)                                         *)
(***************************************************************************)
trim_data(x, start, end) ==
    IF start = 0 THEN Slice(x, 0, -end)
    ELSE IF end = 0 THEN SliceFrom(x, start)
    ELSE IF start = 0 /\ end = 0 THEN x
    ELSE Slice(x, start, -end)

trim(d, start, end) ==
    LET t == seq_ss_trim(d, start, end)
    IN  [k \in DOMAIN t |-> [t[k] EXCEPT !.data = trim_data(@, start, end)]]

(***************************************************************************)
(* trim_p5_and_p3 (data_processing.py:53-68)                               *)
(***************************************************************************)
P3_LENGTH == 20

\* The loop of lines 61-64 with the test of line 63 left out.
common_p5_loop_no_test(d, p5s, n) == IF n = 0 THEN <<>> ELSE p5s[n]

\* The loop of lines 61-64 with a break after the first adapter that passes the
\* test of line 63.
common_p5_loop_first_match(d, p5s, n) ==
    LET hits == {k \in 1..n : has_5p_sequence(d, p5s[k])}
    IN  IF hits = {} THEN <<>>
        ELSE p5s[CHOOSE k \in hits : \A j \in hits : k <= j]

\* The loop of lines 61-64 over the first n adapters of the list: the value of
\* common_p5_seq after it, the last adapter that every row starts with.
RECURSIVE common_p5_loop(_, _, _)
common_p5_loop(d, p5s, n) ==
    IF n = 0 THEN <<>>
    ELSE IF has_5p_sequence(d, p5s[n]) THEN p5s[n]
    ELSE common_p5_loop(d, p5s, n - 1)

\* df_p5 is the adapter list as read from the resource file.
find_common_p5(d, df_p5) ==
    LET p5s == [k \in DOMAIN df_p5 |-> to_rna_seq(df_p5[k])]
    IN  common_p5_loop(d, p5s, Len(p5s))

trim_p5_and_p3(d, df_p5) ==
    LET common_p5_seq == find_common_p5(d, df_p5)
    IN  IF Len(common_p5_seq) = 0
        THEN [raised |-> TRUE, err |-> "No common p5 sequence found",
              df |-> d, log |-> <<>>]
        ELSE [raised |-> FALSE, err |-> "none",
              df |-> trim(d, Len(common_p5_seq), P3_LENGTH),
              log |-> <<Info(common_p5_seq)>>]

(***************************************************************************)
(* Inputs of the trimming specification.                                   *)
(***************************************************************************)
Filler(n) == Repeat("A", n)
Dots(n) == Repeat(".", n)

\* data[k] is the (0-based) position it was measured at.
PosData(n) == [k \in 1..n |-> k - 1]

MkRow(seq) == [sequence |-> seq, structure |-> Dots(Len(seq)), data |-> PosData(Len(seq))]

TrimPrefixes == {<<"G", "G", "A">>, <<"G", "G", "C">>, <<"G", "U">>, <<"A", "C">>}
TrimBodyLens == {1, 21}
TrimRowPool == {MkRow(p \o Filler(n)) : p \in TrimPrefixes, n \in TrimBodyLens}

\* The adapters of the resource file are DNA.
P5Pool == {<<"G", "G">>, <<"G", "G", "A">>, <<"G", "T">>, <<"C">>}
P5Lists == {l \in SeqsUpTo(P5Pool, MaxP5) : \A a, b \in DOMAIN l : a # b => l[a] # l[b]}

NoArgs ==
    [op |-> "none", start |-> 0, end |-> 0, p5 |-> <<>>,
     target |-> [sequence |-> <<>>, structure |-> <<>>], error |-> FALSE,
     df_ref |-> <<>>]

InitTrim ==
    /\ df \in SeqsUpTo(TrimRowPool, MaxRows)
    /\ input = df
    /\ pc = "start"
    /\ args = NoArgs
    /\ result = <<>>
    /\ log = <<>>
    /\ calls = <<>>

Trim ==
    /\ pc = "start"
    /\ \E s \in 0..MaxTrim, e \in 0..MaxTrim :
        /\ args' = [NoArgs EXCEPT !.op = "trim", !.start = s, !.end = e]
        /\ df' = trim(df, s, e)
    /\ pc' = "done"
    /\ UNCHANGED <<input, result, log, calls>>

TrimP5AndP3 ==
    /\ pc = "start"
    /\ \E l \in P5Lists :
        LET r == trim_p5_and_p3(df, l)
        IN  /\ args' = [NoArgs EXCEPT !.op = "trim_p5_and_p3", !.p5 = l]
            /\ df' = r.df
            /\ log' = r.log \o (IF r.raised THEN <<Raised(r.err)>> ELSE <<>>)
            /\ pc' = IF r.raised THEN "raised" ELSE "done"
    /\ UNCHANGED <<input, result, calls>>

NextTrim == Trim \/ TrimP5AndP3

SpecTrim == InitTrim /\ [][NextTrim]_vars

(***************************************************************************)
(* Structure search (external): seq_tools.structure.find and               *)
(* rna_secstruct.SecStruct.get_motifs.                                     *)
(***************************************************************************)
\* start=None / end=None
NoneV == -1

Range(s) == {s[k] : k \in DOMAIN s}

\* The elements of a set of integers in ascending order.
RECURSIVE Sorted(_)
Sorted(S) ==
    IF S = {} THEN <<>>
    ELSE LET m == CHOOSE x \in S : \A y \in S : x <= y
         IN  <<m>> \o Sorted(S \ {m})

\* s.split("&")
RECURSIVE Strands(_)
Strands(s) ==
    IF "&" \notin Range(s) THEN <<s>>
    ELSE LET i == CHOOSE k \in DOMAIN s : s[k] = "&" /\ \A j \in 1..(k - 1) : s[j] # "&"
         IN  <<SubSeq(s, 1, i - 1)>> \o Strands(SubSeq(s, i + 1, Len(s)))

\* The half-open bounds <<lo, hi>> (0-based), in ascending order, at which one
\* strand of the target occurs in the row, sequence and structure both, inside
\* the window [start, end).
StrandMatches(row, tseq, tss, start, end) ==
    LET lo == IF start = NoneV THEN 0 ELSE start
        hi == IF end = NoneV THEN Len(row.sequence) ELSE Min(end, Len(row.sequence))
        at == {q \in lo..(hi - Len(tseq)) :
                  /\ SubSeq(row.sequence, q + 1, q + Len(tseq)) = tseq
                  /\ SubSeq(row.structure, q + 1, q + Len(tss)) = tss}
        ps == Sorted(at)
    IN  [k \in DOMAIN ps |-> <<ps[k], ps[k] + Len(tseq)>>]

\* itertools.product of a list of lists.
RECURSIVE Product(_)
Product(lists) ==
    IF Len(lists) = 0 THEN << <<>> >>
    ELSE LET h == Head(lists)
             rest == Product(Tail(lists))
         IN  [k \in 1..(Len(h) * Len(rest)) |->
                <<h[((k - 1) \div Len(rest)) + 1]>> \o rest[((k - 1) % Len(rest)) + 1]]

\* seq_tools.structure.find: the list of matches, each a list of half-open bounds,
\* one per strand of the target.
seq_ss_find(row, target, start, end) ==
    LET seqs == Strands(target.sequence)
        sss == Strands(target.structure)
    IN  Product([j \in DOMAIN seqs |-> StrandMatches(row, seqs[j], sss[j], start, end)])

\* range(lo, hi)
PyRange(lo, hi) == [k \in 1..(hi - lo) |-> lo + k - 1]

\* SecStruct.get_motifs: the list of matching motifs, each with its strands, a
\* strand being the list of its positions.
get_motifs(row, params) ==
    LET r == seq_ss_find(row, params, NoneV, NoneV)
    IN  [k \in DOMAIN r |->
            [strands |-> [j \in DOMAIN r[k] |-> PyRange(r[k][j][1], r[k][j][2])]]]

(***************************************************************************)
(* The extractors (data_processing.py:71-163).  Each returns                *)
(* [raised, err, all_data]: whether it raised, the error, the value.       *)
(***************************************************************************)
\* x[p], p 0-based
At(x, p) == x[p + 1]

\* The concatenation of a list of lists.
RECURSIVE Flatten(_)
Flatten(ls) == IF Len(ls) = 0 THEN <<>> ELSE Head(ls) \o Flatten(Tail(ls))

\* len(sequence) with the separators counted in (the '&' not subtracted).
data_len_with_separators(target) == Len(target.sequence)

\* len(sequence) - sequence.count("&")   (lines 76, 102, 135)
data_len(target) == Len(target.sequence) - Count(target.sequence, "&")

\* What the loop does with the rows: it raises at the first row whose outcome is
\* an error, and otherwise returns one vector per row.
Collect(outcomes) ==
    LET bad == {k \in DOMAIN outcomes : outcomes[k].err # "none"}
    IN  IF bad # {}
        THEN [raised |-> TRUE,
              err |-> outcomes[CHOOSE k \in bad : \A j \in bad : k <= j].err,
              all_data |-> <<>>]
        ELSE [raised |-> FALSE, err |-> "none",
              all_data |-> [k \in DOMAIN outcomes |-> outcomes[k].data]]

\* One row of get_dms_reactivity_for_motif (lines 79-90).
motif_row(row, params, error) ==
    LET motifs == get_motifs(row, params)
    IN  IF Len(motifs) # 1 /\ error
        THEN [err |-> "More than one motif found", data |-> <<>>]
        ELSE IF Len(motifs) = 0
        THEN [err |-> "none", data |-> Repeat(-1, data_len(params))]
        ELSE [err |-> "none",
              data |-> LET pos == Flatten(motifs[1].strands)
                       IN  [k \in DOMAIN pos |-> At(row.data, pos[k])]]

get_dms_reactivity_for_motif(d, params, error) ==
    Collect([k \in DOMAIN d |-> motif_row(d[k], params, error)])

\* Lines 116-122 reached only in strict mode.
sub_structure_row_lenient(row, sub_seq_struct, start, end, error) ==
    LET r == seq_ss_find(row, sub_seq_struct, start, end)
    IN  IF Len(r) = 0 /\ error
        THEN [err |-> "Could not find", data |-> <<>>]
        ELSE IF Len(r) = 0
        THEN [err |-> "none", data |-> Repeat(-1, data_len(sub_seq_struct))]
        ELSE IF Len(r) > 1 /\ error
        THEN [err |-> "multiple copies", data |-> <<>>]
        ELSE [err |-> "none",
              data |-> LET bounds == r[1]
                           pos == Flatten([j \in DOMAIN bounds |->
                                              PyRange(bounds[j][1], bounds[j][2])])
                       IN  [k \in DOMAIN pos |-> At(row.data, pos[k])]]

\* One row of get_dms_reactivity_for_sub_structure (lines 104-127).
sub_structure_row(row, sub_seq_struct, start, end, error) ==
    LET r == seq_ss_find(row, sub_seq_struct, start, end)
    IN  IF Len(r) = 0 /\ error
        THEN [err |-> "Could not find", data |-> <<>>]
        ELSE IF Len(r) = 0
        THEN [err |-> "none", data |-> Repeat(-1, data_len(sub_seq_struct))]
        ELSE IF Len(r) > 1
        THEN [err |-> "multiple copies", data |-> <<>>]
        ELSE [err |-> "none",
              data |-> LET bounds == r[1]
                           pos == Flatten([j \in DOMAIN bounds |->
                                              PyRange(bounds[j][1], bounds[j][2])])
                       IN  [k \in DOMAIN pos |-> At(row.data, pos[k])]]

get_dms_reactivity_for_sub_structure(d, sub_seq_struct, start, end, error) ==
    Collect([k \in DOMAIN d |-> sub_structure_row(d[k], sub_seq_struct, start, end, error)])

\* m_ss (line 134)
WT_TLR == [sequence |-> <<"U", "A", "U", "G", "G", "&", "C", "C", "U", "A", "A", "G">>, structure |-> <<"(", ".", ".", "(", "(", "&", ")", ")", ".", ".", ".", ")">>]

\* One row of get_dms_reactivity_for_wt_tlr (lines 138-162).
wt_tlr_row(row, start, end, error) ==
    LET m_ss == WT_TLR
        r == seq_ss_find(row, m_ss, start, end)
    IN  IF Len(r) = 0 /\ error
        THEN [err |-> "Could not find", data |-> <<>>]
        ELSE IF Len(r) = 0
        THEN [err |-> "none", data |-> Repeat(-1, data_len(m_ss))]
        ELSE IF Len(r) > 1
        THEN [err |-> "multiple copies", data |-> <<>>]
        ELSE [err |-> "none",
              data |-> LET bounds == r[1]
                       IN  Slice(row.data, bounds[2][1], bounds[2][2])
                           \o Slice(row.data, bounds[1][1], bounds[1][2])]

get_dms_reactivity_for_wt_tlr(d, start, end, error) ==
    Collect([k \in DOMAIN d |-> wt_tlr_row(d[k], start, end, error)])

(***************************************************************************)
(* The targets the processors search for (lines 176, 266, 280, 284, 288).  *)
(***************************************************************************)
GAAA == [sequence |-> <<"G", "G", "A", "A", "A", "C">>, structure |-> <<"(", ".", ".", ".", ".", ")">>]
REF_HP == [sequence |-> <<"C", "G", "A", "G", "U", "A", "G">>, structure |-> <<"(", ".", ".", ".", ".", ".", ")">>]
IRES == [sequence |-> <<"G", "A", "A", "C", "U", "A", "C", "&", "G", "C">>, structure |-> <<"(", ".", ".", ".", ".", ".", "(", "&", ")", ")">>]
KINK_TURN == [sequence |-> <<"C", "C", "G", "A", "G", "&", "C", "G", "U", "U", "U", "G", "A", "C", "G">>, structure |-> <<"(", "(", "(", "(", "(", "&", ")", ".", ".", ")", ")", ")", ".", ".", ")">>]
MOTIF_3X3 == [sequence |-> <<"G", "A", "A", "C", "A", "&", "U", "A", "C", "C", "C">>, structure |-> <<"(", ".", ".", ".", "(", "&", ")", ".", ".", ".", ")">>]

\* The two strands of a two-strand target, as pieces to build rows from.
Strand(target, j) ==
    [sequence |-> Strands(target.sequence)[j], structure |-> Strands(target.structure)[j]]

Unpaired(n) == [sequence |-> Filler(n), structure |-> Dots(n)]

\* A row made of pieces, one after the other; data[k] is the position k - 1.
RowOf(pieces) ==
    LET seq == Flatten([j \in DOMAIN pieces |-> pieces[j].sequence])
        ss == Flatten([j \in DOMAIN pieces |-> pieces[j].structure])
    IN  [sequence |-> seq, structure |-> ss, data |-> PosData(Len(seq))]

(***************************************************************************)
(* Inputs of the extraction specification.                                 *)
(***************************************************************************)
ExtractRowPool ==
    { RowOf(<<Unpaired(3)>>),
      RowOf(<<Strand(WT_TLR, 1), GAAA, Strand(WT_TLR, 2)>>),
      RowOf(<<Strand(WT_TLR, 1), GAAA, Unpaired(1), GAAA, Strand(WT_TLR, 2), Strand(WT_TLR, 2)>>),
      RowOf(<<Strand(IRES, 1), GAAA, Strand(IRES, 2)>>),
      RowOf(<<Strand(IRES, 1), Strand(IRES, 1), Strand(IRES, 2), Unpaired(2)>>),
      RowOf(<<Strand(WT_TLR, 1), Unpaired(4), Strand(WT_TLR, 2), Strand(IRES, 1), Strand(IRES, 2)>>) }

ExtractTargets == {GAAA, WT_TLR, IRES}

\* start= / end= of the search window
Windows == {NoneV, 8}

InitExtract ==
    /\ df \in SeqsUpTo(ExtractRowPool, MaxRows)
    /\ input = df
    /\ pc = "start"
    /\ args = NoArgs
    /\ result = <<>>
    /\ log = <<>>
    /\ calls = <<>>

Returned(r) ==
    /\ result' = r.all_data
    /\ log' = IF r.raised THEN <<Raised(r.err)>> ELSE <<>>
    /\ pc' = IF r.raised THEN "raised" ELSE "done"
    /\ UNCHANGED <<df, input, calls>>

Motif ==
    /\ pc = "start"
    /\ \E params \in ExtractTargets, error \in BOOLEAN :
        /\ args' = [NoArgs EXCEPT !.op = "motif", !.target = params, !.error = error]
        /\ Returned(get_dms_reactivity_for_motif(df, params, error))

SubStructure ==
    /\ pc = "start"
    /\ \E t \in ExtractTargets, s \in Windows, e \in Windows, error \in BOOLEAN :
        /\ args' = [NoArgs EXCEPT !.op = "sub_structure", !.target = t,
                                   !.start = s, !.end = e, !.error = error]
        /\ Returned(get_dms_reactivity_for_sub_structure(df, t, s, e, error))

WtTlr ==
    /\ pc = "start"
    /\ \E s \in Windows, e \in Windows, error \in BOOLEAN :
        /\ args' = [NoArgs EXCEPT !.op = "wt_tlr", !.target = WT_TLR,
                                   !.start = s, !.end = e, !.error = error]
        /\ Returned(get_dms_reactivity_for_wt_tlr(df, s, e, error))

NextExtract == Motif \/ SubStructure \/ WtTlr

SpecExtract == InitExtract /\ [][NextExtract]_vars

(***************************************************************************)
(* MTTR6BufferTitrationDataProcessor (data_processing.py:220-293)          *)
(***************************************************************************)
\* df[df[col].isin(values)] and df[~df[col].isin(values)]: the rows kept, in order.
RECURSIVE Filter(_, _, _, _)
Filter(d, col, values, keep_in) ==
    IF Len(d) = 0 THEN <<>>
    ELSE LET r == Head(d)
             rest == Filter(Tail(d), col, values, keep_in)
         IN  IF (r[col] \in values) = keep_in THEN <<r>> \o rest ELSE rest

\* include (line 241)
buffer_include == <<"minittr-6-2HP-ref">>

\* exclude_exps (lines 244-248): no comma separates the first two string
\* literals, so Python concatenates them into one entry.
exclude_exps ==
    << "2022_07_18_C0117_100mM_buffer_Mg2+_titra_CM_BL"
          \o "2022_07_18_minittr-6-2HP-ref_NaC_titra_No_MgCl2_CM_RG",
       "2022_07_19_C0117_Hepes_titra_CM_BL" >>

buffer_clean_data(d) ==
    LET d1 == to_rna(d)
        d2 == Filter(d1, "name", Range(buffer_include), TRUE)
        d3 == Filter(d2, "exp_name", Range(exclude_exps), FALSE)
    IN  Filter(d3, "exp_name",
               {"2022_07_18_minittr-6-2HP-ref_NaC_titra_No_MgCl2_CM_RG"}, FALSE)

BufferNames == {"minittr-6-2HP-ref", "minittr-6-uucg"}

BufferExpNames ==
    { "2022_07_18_C0117_100mM_buffer_Mg2+_titra_CM_BL",
      "2022_07_18_minittr-6-2HP-ref_NaC_titra_No_MgCl2_CM_RG",
      "2022_07_19_C0117_Hepes_titra_CM_BL",
      "2022_07_18_C0117_100mM_buffer_Mg2+_titra_CM_BL2022_07_18_minittr-6-2HP-ref_NaC_titra_No_MgCl2_CM_RG",
      "2022_07_26_minittr-6-2HP-ref_buffer_CM_BL" }

BufferRowPool ==
    {[name |-> n, exp_name |-> e, sequence |-> <<"G", "G", "A", "T">>,
      structure |-> Dots(4), data |-> PosData(4)] : n \in BufferNames, e \in BufferExpNames}

InitBuffer ==
    /\ df \in SeqsUpTo(BufferRowPool, MaxRows)
    /\ input = df
    /\ pc = "loaded"
    /\ args = [NoArgs EXCEPT !.op = "MTTR6BufferTitrationDataProcessor"]
    /\ result = <<>>
    /\ log = <<>>
    /\ calls = <<>>

BufferCleanData ==
    /\ pc = "loaded" /\ args.op = "MTTR6BufferTitrationDataProcessor"
    /\ df' = buffer_clean_data(df)
    /\ pc' = "cleaned"
    /\ UNCHANGED <<input, args, result, log, calls>>

NextBuffer == BufferCleanData

SpecBuffer == InitBuffer /\ [][NextBuffer]_vars

(***************************************************************************)
(* compute_all_mg_1_2 (data_processing.py:538-559)                         *)
(*                                                                         *)
(* mg_conc is in units of 0.01 mM.  The fitter, titration.compute_mg_1_2,  *)
(* either returns the fitted values, a function of the two series it is    *)
(* given, or raises a fitting error.                                       *)
(***************************************************************************)
MG_5_0 == 500

\* df[df[col] != value]: the rows kept, in order.
RECURSIVE FilterNe(_, _, _)
FilterNe(d, col, value) ==
    IF Len(d) = 0 THEN <<>>
    ELSE IF Head(d)[col] # value THEN <<Head(d)>> \o FilterNe(Tail(d), col, value)
    ELSE FilterNe(Tail(d), col, value)

\* The construct names in the order groupby sorts them.
Mg12NameOrder == <<"C0117", "minittr-6-2HP-ref", "tlr-mut-1">>

\* df.groupby(["name"]): the groups (key, rows in order), in key order, the keys
\* without rows left out.
RECURSIVE GroupsFrom(_, _)
GroupsFrom(d, n) ==
    IF n > Len(Mg12NameOrder) THEN <<>>
    ELSE LET g == Filter(d, "name", {Mg12NameOrder[n]}, TRUE)
         IN  (IF Len(g) = 0 THEN <<>> ELSE <<[name |-> Mg12NameOrder[n], g |-> g]>>)
             \o GroupsFrom(d, n + 1)

groupby_name(d) == GroupsFrom(d, 1)

\* The arguments of one call of the fitter: g["mg_conc"], g["gaaa_avg"].
FitCall(grp) ==
    [name |-> grp.name,
     mg_conc |-> [k \in DOMAIN grp.g |-> grp.g[k].mg_conc],
     gaaa_avg |-> [k \in DOMAIN grp.g |-> grp.g[k].gaaa_avg]]

\* titration.compute_mg_1_2 when it returns: the fitted values and their errors
\* are a function of the two series, which stand for them here.
compute_mg_1_2(mg_conc, gaaa_avg) == <<mg_conc, gaaa_avg>>

\* The body of the loop (lines 545-557) for one group.
mg_1_2_row(grp) ==
    [name |-> grp.name, num_points |-> Len(grp.g),
     fit |-> compute_mg_1_2(FitCall(grp).mg_conc, FitCall(grp).gaaa_avg)]

\* compute_all_mg_1_2 without line 543.
compute_all_mg_1_2_unfiltered(d, failing) ==
    LET groups == groupby_name(d)
        bad == {k \in DOMAIN groups : groups[k].name \in failing}
    IN  IF bad = {}
        THEN [raised |-> FALSE,
              calls |-> [k \in DOMAIN groups |-> FitCall(groups[k])],
              df_results |-> [k \in DOMAIN groups |-> mg_1_2_row(groups[k])]]
        ELSE LET first == CHOOSE k \in bad : \A j \in bad : k <= j
             IN  [raised |-> TRUE,
                  calls |-> [k \in 1..first |-> FitCall(groups[k])],
                  df_results |-> <<>>]

\* compute_all_mg_1_2; `failing` are the constructs whose fit raises.
compute_all_mg_1_2(d, failing) ==
    LET groups == groupby_name(FilterNe(d, "mg_conc", MG_5_0))
        bad == {k \in DOMAIN groups : groups[k].name \in failing}
    IN  IF bad = {}
        THEN [raised |-> FALSE,
              calls |-> [k \in DOMAIN groups |-> FitCall(groups[k])],
              df_results |-> [k \in DOMAIN groups |-> mg_1_2_row(groups[k])]]
        ELSE LET first == CHOOSE k \in bad : \A j \in bad : k <= j
             IN  [raised |-> TRUE,
                  calls |-> [k \in 1..first |-> FitCall(groups[k])],
                  df_results |-> <<>>]

MaxPoints == 3

Mg12Concs == {25, 500, 1000}

Mg12RowPool ==
    {[name |-> n, mg_conc |-> m, gaaa_avg |-> m \div 25] :
        n \in {"C0117", "minittr-6-2HP-ref"}, m \in Mg12Concs}

InitMg12 ==
    /\ df \in SeqsUpTo(Mg12RowPool, MaxPoints)
    /\ input = df
    /\ pc = "start"
    /\ args = NoArgs
    /\ result = <<>>
    /\ log = <<>>
    /\ calls = <<>>

ComputeAllMg12 ==
    /\ pc = "start"
    /\ \E failing \in SUBSET {"C0117", "minittr-6-2HP-ref"} :
        LET r == compute_all_mg_1_2(df, failing)
        IN  /\ result' = r.df_results
            /\ calls' = r.calls
            /\ pc' = IF r.raised THEN "raised" ELSE "done"
    /\ args' = [NoArgs EXCEPT !.op = "compute_all_mg_1_2"]
    /\ UNCHANGED <<df, input, log>>

NextMg12 == ComputeAllMg12

SpecMg12 == InitMg12 /\ [][NextMg12]_vars

(***************************************************************************)
(* Derived columns.                                                        *)
(***************************************************************************)
RECURSIVE Sum(_)
Sum(x) == IF Len(x) = 0 THEN 0 ELSE Head(x) + Sum(Tail(x))

\* np.mean(x), kept exact as the sum and the number of values.
Mean(x) == [sum |-> Sum(x), n |-> Len(x)]

\* df[col] = values
AddCol(d, col, values) == [k \in DOMAIN d |-> (col :> values[k]) @@ d[k]]

\* The state st of a process_data is [raised, err, df, log]: whether a statement
\* has raised, the error, self.df, the messages logged.  A statement is skipped
\* once an earlier one has raised.
\*
\* df[col] = extractor(df, ...): a raising extractor assigns nothing.
AssignResult(st, col, r) ==
    IF r.raised THEN [st EXCEPT !.raised = TRUE, !.err = r.err]
    ELSE [st EXCEPT !.df = AddCol(st.df, col, r.all_data)]

Assign(st, col, result_of_call) == Only({AssignResult(st, col, r) : r \in {result_of_call}})

\* df["gaaa_avg"] = df["gaaa"].apply(lambda x: np.mean(x[2:-1]))   (line 178)
add_gaaa_avg(d) ==
    AddCol(d, "gaaa_avg", [k \in DOMAIN d |-> Mean(Slice(d[k].gaaa, 2, -1))])

\* df[col_as] = df[col].apply(lambda x: np.mean([x[2], x[5]]))   (line 268)
add_hp_as(d, col, col_as) ==
    AddCol(d, col_as, [k \in DOMAIN d |-> Mean(<<At(d[k][col], 2), At(d[k][col], 5)>>)])

\* self.df = trim_p5_and_p3(self.df), the first statement of a process_data.
TrimStep(d, df_p5) ==
    trim_p5_and_p3(d, df_p5)

\* The adapter lists the resource file may hold when a processor runs.
PipelineP5Lists == {<< <<"G", "G">> >>, << <<"C">>, <<"G", "G">> >>, << <<"C">> >>}

P5 == [sequence |-> <<"G", "G">>, structure |-> Dots(2)]
P3 == Unpaired(20)

(***************************************************************************)
(* MTTR6MutsDataProcessor (data_processing.py:359-408)                     *)
(***************************************************************************)
\* get_gaaa_data(self.df, error=False)   (line 389, lines 169-178)
muts_gaaa(st) ==
    IF st.raised THEN st
    ELSE Assign(st, "gaaa",
                get_dms_reactivity_for_sub_structure(st.df, GAAA, NoneV, NoneV, FALSE))

muts_gaaa_avg(st) == IF st.raised THEN st ELSE [st EXCEPT !.df = add_gaaa_avg(@)]

\* line 390
muts_tlr(st) ==
    IF st.raised THEN st
    ELSE Assign(st, "tlr", get_dms_reactivity_for_wt_tlr(st.df, NoneV, NoneV, FALSE))

\* Lines 391-393 with error=False.
muts_ref_hp_1_lenient(st) ==
    IF st.raised THEN st
    ELSE Assign(st, "ref_hp_1",
                get_dms_reactivity_for_sub_structure(st.df, REF_HP, NoneV, 50, FALSE))

\* Lines 391-393: no `error` argument, so the default, True, applies.
muts_ref_hp_1(st) ==
    IF st.raised THEN st
    ELSE Assign(st, "ref_hp_1",
                get_dms_reactivity_for_sub_structure(st.df, REF_HP, NoneV, 50, TRUE))

\* lines 394-396
muts_ref_hp_1_as(st) ==
    IF st.raised THEN st ELSE [st EXCEPT !.df = add_hp_as(@, "ref_hp_1", "ref_hp_1_as")]

\* lines 397-399
muts_ires(st) ==
    IF st.raised THEN st
    ELSE Assign(st, "ires", get_dms_reactivity_for_motif(st.df, IRES, FALSE))

\* lines 400-402
muts_3x3_motif(st) ==
    IF st.raised THEN st
    ELSE Assign(st, "3x3_motif",
                get_dms_reactivity_for_sub_structure(st.df, MOTIF_3X3, NoneV, NoneV, FALSE))

\* lines 403-405: no `error` argument
muts_kink_turn(st) ==
    IF st.raised THEN st
    ELSE Assign(st, "kink_turn",
                get_dms_reactivity_for_sub_structure(st.df, KINK_TURN, NoneV, NoneV, TRUE))

\* The statements of process_data (lines 385-405), one after the other, each on
\* the state the one before it left.
muts_process_data(d, df_p5) ==
    Only({muts_kink_turn(s7) : s7 \in
         {muts_3x3_motif(s6) : s6 \in
         {muts_ires(s5) : s5 \in
         {muts_ref_hp_1_as(s4) : s4 \in
         {muts_ref_hp_1(s3) : s3 \in
         {muts_tlr(s2) : s2 \in
         {muts_gaaa_avg(s1) : s1 \in
         {muts_gaaa(s0) : s0 \in {TrimStep(d, df_p5)}}}}}}}}})

\* The pieces of a point mutant of the wild type, in order; `without` are the
\* motifs the mutant lacks.
MutsPieces(without) ==
    <<P5>>
    \o (IF "ref_hp" \in without THEN <<Unpaired(7)>> ELSE <<REF_HP>>)
    \o (IF "ires" \in without THEN <<>> ELSE <<Strand(IRES, 1)>>)
    \o (IF "kink_turn" \in without THEN <<>> ELSE <<Strand(KINK_TURN, 1)>>)
    \o (IF "3x3" \in without THEN <<>> ELSE <<Strand(MOTIF_3X3, 1)>>)
    \o (IF "tlr" \in without THEN <<>> ELSE <<Strand(WT_TLR, 1)>>)
    \o (IF "gaaa" \in without THEN <<>> ELSE <<GAAA>>)
    \o (IF "tlr" \in without THEN <<>> ELSE <<Strand(WT_TLR, 2)>>)
    \o (IF "3x3" \in without THEN <<>> ELSE <<Strand(MOTIF_3X3, 2)>>)
    \o (IF "kink_turn" \in without THEN <<>> ELSE <<Strand(KINK_TURN, 2)>>)
    \o (IF "ires" \in without THEN <<>> ELSE <<Strand(IRES, 2)>>)
    \o <<P3>>

MutsRow(name, without) == ("name" :> name) @@ RowOf(MutsPieces(without))

\* load_data keeps the rows whose name contains "minittr" (line 380).
MutsRowPool ==
    { MutsRow("minittr-6-2HP-ref", {}),
      MutsRow("minittr_6_uucg", {"gaaa"}),
      MutsRow("minittr_6_no_tlr", {"tlr"}),
      MutsRow("minittr_6_no_3_3_junc", {"3x3"}),
      MutsRow("minittr_6_no_ires", {"ires"}),
      MutsRow("minittr_6_no_ref_hp", {"ref_hp"}),
      MutsRow("minittr_6_no_kink_turn", {"kink_turn"}),
      MutsRow("minittr_6_no_tlr_no_ires", {"tlr", "ires"}) }

InitMuts ==
    /\ df \in SeqsUpTo(MutsRowPool, MaxRows)
    /\ input = df
    /\ pc = "loaded"
    /\ args = [NoArgs EXCEPT !.op = "MTTR6MutsDataProcessor"]
    /\ result = <<>>
    /\ log = <<>>
    /\ calls = <<>>

\* clean_data is `pass` (lines 382-383).
MutsCleanData ==
    /\ pc = "loaded" /\ args.op = "MTTR6MutsDataProcessor"
    /\ pc' = "cleaned"
    /\ UNCHANGED <<df, input, args, result, log, calls>>

\* process_data; `result` is the table written by to_json.
MutsProcessData ==
    /\ pc = "cleaned" /\ args.op = "MTTR6MutsDataProcessor"
    /\ \E l \in PipelineP5Lists :
        LET r == muts_process_data(df, l)
        IN  /\ args' = [args EXCEPT !.p5 = l]
            /\ df' = r.df
            /\ log' = r.log \o (IF r.raised THEN <<Raised(r.err)>> ELSE <<>>)
            /\ result' = IF r.raised THEN <<>> ELSE r.df
            /\ pc' = IF r.raised THEN "raised" ELSE "done"
    /\ UNCHANGED <<input, calls>>

NextMuts == MutsCleanData \/ MutsProcessData

SpecMuts == InitMuts /\ [][NextMuts]_vars

(***************************************************************************)
(* TTRMutsDataProcessor (data_processing.py:411-509)                       *)
(*                                                                         *)
(* mg_conc is in units of 0.01 mM, a reactivity in units of 0.000001.      *)
(***************************************************************************)
MG_0_20 == 20
MG_0_25 == 25

\* round(y, 5): to the nearest multiple of 10 units, a tie to the even one.
Round5(y) ==
    LET q == y \div 10
        r == y % 10
    IN  IF r < 5 THEN 10 * q
        ELSE IF r > 5 THEN 10 * (q + 1)
        ELSE IF q % 2 = 0 THEN 10 * q ELSE 10 * (q + 1)

\* exclude (line 440)
ttr_exclude == <<"PurRe4L5", "PtrRe2L5", "PurRe2L4">>

\* df[~(q1 & q2)]   (lines 443-448)
RECURSIVE DropRunRna(_, _, _)
DropRunRna(d, run_name, rna_name) ==
    IF Len(d) = 0 THEN <<>>
    ELSE IF Head(d).run_name = run_name /\ Head(d).rna_name = rna_name
    THEN DropRunRna(Tail(d), run_name, rna_name)
    ELSE <<Head(d)>> \o DropRunRna(Tail(d), run_name, rna_name)

\* __get_duplicates (lines 485-493): one entry for each group of rows with the
\* same (name, mg_conc) whose run_name values are not all the same.  The groups
\* are taken in the order of their first row.
get_duplicates(d) ==
    LET firsts == {k \in DOMAIN d :
                      \A j \in 1..(k - 1) :
                          <<d[j].name, d[j].mg_conc>> # <<d[k].name, d[k].mg_conc>>}
        group(k) == {j \in DOMAIN d :
                        <<d[j].name, d[j].mg_conc>> = <<d[k].name, d[k].mg_conc>>}
        unique_runs(k) == {d[j].run_name : j \in group(k)}
        unique_rna(k) == {d[j].rna_name : j \in group(k)}
        dups == Sorted({k \in firsts : Cardinality(unique_runs(k)) # 1})
    IN  [i \in DOMAIN dups |->
            <<<<d[dups[i]].name, d[dups[i]].mg_conc>>,
              unique_runs(dups[i]), unique_rna(dups[i])>>]

\* Lines 435-448: the table the duplicate check is made on.
ttr_filtered(d) ==
    LET d1 == to_rna(d)
        d2 == [k \in DOMAIN d1 |->
                  IF d1[k].mg_conc = MG_0_20 THEN [d1[k] EXCEPT !.mg_conc = MG_0_25]
                  ELSE d1[k]]
        d3 == Filter(d2, "name", Range(ttr_exclude), FALSE)
        d4 == DropRunRna(d3, "2022_08_29_mtt6_seq",
                         "mtt6_mutations_set_2_50mM-NaC_0.1-mM-Mg2+")
    IN  DropRunRna(d4, "2022_08_29_mtt6_seq", "mtt6_mutations_set_1_50mM-NaC_5-mM-Mg2+")

\* Lines 458: the data of every row rounded.
round_data(d) ==
    [k \in DOMAIN d |-> [d[k] EXCEPT !.data = [j \in DOMAIN @ |-> Round5(@[j])]]]

\* clean_data with the exit() of line 455 left out.
ttr_clean_data_no_exit(d) ==
    LET f == Only({ttr_filtered(x) : x \in {d}})
        duplicates == get_duplicates(f)
    IN  [exited |-> FALSE,
         df |-> round_data(f),
         log |-> IF Len(duplicates) > 0
                 THEN <<Error("There are duplicates in the data")>>
                      \o [i \in DOMAIN duplicates |-> Error(duplicates[i])]
                 ELSE <<>>]

\* clean_data (lines 433-458): [exited, df, log].
ttr_clean_data(d) ==
    LET f == Only({ttr_filtered(x) : x \in {d}})
        duplicates == get_duplicates(f)
    IN  IF Len(duplicates) > 0
        THEN [exited |-> TRUE, df |-> f,
              log |-> <<Error("There are duplicates in the data")>>
                      \o [i \in DOMAIN duplicates |-> Error(duplicates[i])]]
        ELSE [exited |-> FALSE, df |-> round_data(f), log |-> <<>>]

\* A left join: a row without an entry in the reference table is kept, its
\* dg, dg_err, act_seq and act_ss absent (NaN).
NaN == <<"nan">>

RECURSIVE merge_left_on_name(_, _)
merge_left_on_name(d, df_ref) ==
    IF Len(d) = 0 THEN <<>>
    ELSE LET row == Head(d)
             hits == Filter(df_ref, "name", {row.name}, TRUE)
         IN  (IF Len(hits) = 0
              THEN <<[dg |-> NaN, dg_err |-> NaN, act_seq |-> NaN, act_ss |-> NaN] @@ row>>
              ELSE [k \in DOMAIN hits |-> hits[k] @@ row])
             \o merge_left_on_name(Tail(d), df_ref)

\* self.df.merge(df_ref, on="name") (line 466): how is "inner" by default: for
\* each row, in order, one row for each entry of df_ref with its name.
RECURSIVE merge_on_name(_, _)
merge_on_name(d, df_ref) ==
    IF Len(d) = 0 THEN <<>>
    ELSE LET row == Head(d)
             hits == Filter(df_ref, "name", {row.name}, TRUE)
         IN  [k \in DOMAIN hits |-> hits[k] @@ row] \o merge_on_name(Tail(d), df_ref)

\* lines 464-466
ttr_merge(st, df_ref) ==
    IF st.raised THEN st ELSE [st EXCEPT !.df = merge_on_name(@, df_ref)]

\* lines 468-470
ttr_gaaa(st) ==
    IF st.raised THEN st
    ELSE Assign(st, "gaaa",
                get_dms_reactivity_for_sub_structure(st.df, GAAA, NoneV, NoneV, TRUE))

\* line 472
ttr_gaaa_avg(st) == IF st.raised THEN st ELSE [st EXCEPT !.df = add_gaaa_avg(@)]

\* lines 474-476
ttr_ref_hp(st) ==
    IF st.raised THEN st
    ELSE Assign(st, "ref_hp",
                get_dms_reactivity_for_sub_structure(st.df, REF_HP, NoneV, 50, TRUE))

\* line 478
ttr_ref_hp_as(st) ==
    IF st.raised THEN st ELSE [st EXCEPT !.df = add_hp_as(@, "ref_hp", "ref_hp_as")]

\* Lines 498-507 with the two slices of lines 503-506 taken over the whole
\* strands.
tlr_reactivities_row_untrimmed(row) ==
    IF row.act_seq = NaN THEN [err |-> "TypeError", data |-> <<>>]
    ELSE LET r == seq_ss_find(row, [sequence |-> row.act_seq, structure |-> row.act_ss],
                              NoneV, NoneV)
         IN  IF Len(r) = 0 THEN [err |-> "IndexError", data |-> <<>>]
             ELSE IF Len(r[1]) < 2 THEN [err |-> "IndexError", data |-> <<>>]
             ELSE LET bounds == r[1]
                  IN  [err |-> "none",
                       data |-> Slice(row.data, bounds[2][1], bounds[2][2])
                                \o Slice(row.data, bounds[1][1], bounds[1][2])]

\* One row of __get_tlr_reactivities (lines 498-507).
tlr_reactivities_row(row) ==
    IF row.act_seq = NaN THEN [err |-> "TypeError", data |-> <<>>]
    ELSE LET r == seq_ss_find(row, [sequence |-> row.act_seq, structure |-> row.act_ss],
                              NoneV, NoneV)
         IN  IF Len(r) = 0 THEN [err |-> "IndexError", data |-> <<>>]
             ELSE IF Len(r[1]) < 2 THEN [err |-> "IndexError", data |-> <<>>]
             ELSE LET bounds == r[1]
                  IN  [err |-> "none",
                       data |-> Slice(row.data, bounds[2][1], bounds[2][2] - 1)
                                \o Slice(row.data, bounds[1][1] + 1, bounds[1][2])]

\* __get_tlr_reactivities (lines 495-509), line 479
ttr_tlr(st) ==
    IF st.raised THEN st
    ELSE Assign(st, "tlr", Collect([k \in DOMAIN st.df |-> tlr_reactivities_row(st.df[k])]))

\* process_data (lines 460-483)
ttr_process_data(d, df_p5, df_ref) ==
    Only({ttr_tlr(s5) : s5 \in
         {ttr_ref_hp_as(s4) : s4 \in
         {ttr_ref_hp(s3) : s3 \in
         {ttr_gaaa_avg(s2) : s2 \in
         {ttr_gaaa(s1) : s1 \in
         {ttr_merge(s0, df_ref) : s0 \in {TrimStep(d, df_p5)}}}}}}})

\* A receptor variant of the library.
TLR_VARIANT == [sequence |-> <<"U", "A", "U", "G", "G", "&", "C", "C", "U", "G", "A", "G">>, structure |-> <<"(", ".", ".", "(", "(", "&", ")", ")", ".", ".", ".", ")">>]

\* A construct of the library: adapter, reference hairpin, receptor strand,
\* tetraloop, receptor strand, 3' tail.
TtrSeq(receptor) ==
    RowOf(<<P5, REF_HP, Unpaired(2), Strand(receptor, 1), GAAA, Strand(receptor, 2), P3>>)

\* reactivities with digits beyond the fifth decimal place
TtrData(n) == [k \in 1..n |-> 100 * (k - 1) + 7]

TtrRow(name, receptor, mg_conc, run_name, rna_name) ==
    [name |-> name, mg_conc |-> mg_conc, run_name |-> run_name, rna_name |-> rna_name,
     sequence |-> TtrSeq(receptor).sequence, structure |-> TtrSeq(receptor).structure,
     data |-> TtrData(Len(TtrSeq(receptor).sequence))]

TtrRowPool ==
    { TtrRow("TLR_wt", WT_TLR, 25, "2022_08_26_mtt6_set1-3_MgTitra_KU_seq",
             "mtt6_mutations_set_1_50mM-NaC_0.25-mM-Mg2+"),
      TtrRow("TLR_wt", WT_TLR, 25, "2022_08_29_mtt6_seq",
             "mtt6_mutations_set_1_50mM-NaC_0.25-mM-Mg2+"),
      TtrRow("TLR_wt", WT_TLR, 20, "2022_08_29_mtt6_seq",
             "mtt6_mutations_set_1_50mM-NaC_0.25-mM-Mg2+"),
      TtrRow("TLR_wt", WT_TLR, 25, "2022_08_29_mtt6_seq",
             "mtt6_mutations_set_2_50mM-NaC_0.1-mM-Mg2+"),
      TtrRow("TLR_wt", WT_TLR, 500, "2022_08_29_mtt6_seq",
             "mtt6_mutations_set_1_50mM-NaC_5-mM-Mg2+"),
      TtrRow("TLR_wt", WT_TLR, 500, "2022_08_26_mtt6_set1-3_MgTitra_KU_seq",
             "mtt6_mutations_set_1_50mM-NaC_5-mM-Mg2+"),
      TtrRow("TLR_variant", TLR_VARIANT, 25, "2022_08_26_mtt6_set1-3_MgTitra_KU_seq",
             "mtt6_mutations_set_1_50mM-NaC_0.25-mM-Mg2+"),
      TtrRow("PurRe4L5", TLR_VARIANT, 25, "2022_08_26_mtt6_set1-3_MgTitra_KU_seq",
             "mtt6_mutations_set_1_50mM-NaC_0.25-mM-Mg2+"),
      TtrRow("PurRe4L5", TLR_VARIANT, 25, "2022_08_29_mtt6_seq",
             "mtt6_mutations_set_1_50mM-NaC_0.25-mM-Mg2+") }

\* all_sets.csv restricted to name, dg, dg_err, act_seq, act_ss (lines 464-465)
RefRow(name, receptor, dg) ==
    [name |-> name, dg |-> dg, dg_err |-> 1,
     act_seq |-> receptor.sequence, act_ss |-> receptor.structure]

TtrRefTables ==
    { <<>>,
      <<RefRow("TLR_wt", WT_TLR, -10)>>,
      <<RefRow("TLR_variant", TLR_VARIANT, -8), RefRow("TLR_wt", WT_TLR, -10)>>,
      <<RefRow("TLR_wt", WT_TLR, -10), RefRow("TLR_wt", WT_TLR, -11)>> }

InitTtr ==
    /\ df \in SeqsUpTo(TtrRowPool, MaxRows)
    /\ input = df
    /\ pc = "loaded"
    /\ args = [NoArgs EXCEPT !.op = "TTRMutsDataProcessor"]
    /\ result = <<>>
    /\ log = <<>>
    /\ calls = <<>>

\* clean_data; exit() ends the process.
TtrCleanData ==
    /\ pc = "loaded" /\ args.op = "TTRMutsDataProcessor"
    /\ LET r == ttr_clean_data(df)
       IN  /\ df' = r.df
           /\ log' = r.log
           /\ pc' = IF r.exited THEN "exited" ELSE "cleaned"
    /\ UNCHANGED <<input, args, result, calls>>

\* process_data; `result` is the table written by to_json.
TtrProcessData ==
    /\ pc = "cleaned" /\ args.op = "TTRMutsDataProcessor"
    /\ \E l \in PipelineP5Lists, ref \in TtrRefTables :
        LET r == ttr_process_data(df, l, ref)
        IN  /\ args' = [args EXCEPT !.p5 = l, !.df_ref = ref]
            /\ df' = r.df
            /\ log' = r.log \o (IF r.raised THEN <<Raised(r.err)>> ELSE <<>>)
            /\ result' = IF r.raised THEN <<>> ELSE r.df
            /\ pc' = IF r.raised THEN "raised" ELSE "done"
    /\ UNCHANGED <<input, calls>>

NextTtr == TtrCleanData \/ TtrProcessData

SpecTtr == InitTtr /\ [][NextTtr]_vars

(***************************************************************************)
(* process_data of the two wild-type processors:                           *)
(* MTTR6BufferTitrationDataProcessor (data_processing.py:258-293) and      *)
(* MTTR6MgTitrationDataProcessor (data_processing.py:322-356).  Every      *)
(* extraction is called without an `error` argument, so all are strict.    *)
(***************************************************************************)
\* get_gaaa_data(self.df)   (line 262, lines 169-178)
wt_gaaa(st) ==
    IF st.raised THEN st
    ELSE Assign(st, "gaaa",
                get_dms_reactivity_for_sub_structure(st.df, GAAA, NoneV, NoneV, TRUE))

wt_gaaa_avg(st) == IF st.raised THEN st ELSE [st EXCEPT !.df = add_gaaa_avg(@)]

\* line 263
wt_tlr(st) ==
    IF st.raised THEN st
    ELSE Assign(st, "tlr", get_dms_reactivity_for_wt_tlr(st.df, NoneV, NoneV, TRUE))

\* lines 265-267
wt_ref_hp_1(st) ==
    IF st.raised THEN st
    ELSE Assign(st, "ref_hp_1",
                get_dms_reactivity_for_sub_structure(st.df, REF_HP, NoneV, 50, TRUE))

\* lines 268-270
wt_ref_hp_1_as(st) ==
    IF st.raised THEN st ELSE [st EXCEPT !.df = add_hp_as(@, "ref_hp_1", "ref_hp_1_as")]

\* lines 272-274
wt_ref_hp_2(st) ==
    IF st.raised THEN st
    ELSE Assign(st, "ref_hp_2",
                get_dms_reactivity_for_sub_structure(st.df, REF_HP, 50, NoneV, TRUE))

\* lines 275-277
wt_ref_hp_2_as(st) ==
    IF st.raised THEN st ELSE [st EXCEPT !.df = add_hp_as(@, "ref_hp_2", "ref_hp_2_as")]

\* lines 279-281
wt_ires(st) ==
    IF st.raised THEN st
    ELSE Assign(st, "ires", get_dms_reactivity_for_motif(st.df, IRES, TRUE))

\* lines 283-285
wt_kink_turn(st) ==
    IF st.raised THEN st
    ELSE Assign(st, "kink_turn",
                get_dms_reactivity_for_sub_structure(st.df, KINK_TURN, NoneV, NoneV, TRUE))

\* lines 287-289
wt_3x3_motif(st) ==
    IF st.raised THEN st
    ELSE Assign(st, "3x3_motif",
                get_dms_reactivity_for_sub_structure(st.df, MOTIF_3X3, NoneV, NoneV, TRUE))

\* MTTR6BufferTitrationDataProcessor.process_data (lines 258-289): the
\* statements one after the other, each on the state the one before it left.
buffer_process_data(d, df_p5) ==
    Only({wt_3x3_motif(s9) : s9 \in
         {wt_kink_turn(s8) : s8 \in
         {wt_ires(s7) : s7 \in
         {wt_ref_hp_2_as(s6) : s6 \in
         {wt_ref_hp_2(s5) : s5 \in
         {wt_ref_hp_1_as(s4) : s4 \in
         {wt_ref_hp_1(s3) : s3 \in
         {wt_tlr(s2) : s2 \in
         {wt_gaaa_avg(s1) : s1 \in
         {wt_gaaa(s0) : s0 \in {TrimStep(d, df_p5)}}}}}}}}}}})

\* MTTR6MgTitrationDataProcessor.clean_data (lines 314-320)
mg_titra_clean_data(d) ==
    Filter(to_rna(d), "name", {"minittr-6-2HP-ref"}, TRUE)

\* MTTR6MgTitrationDataProcessor.process_data (lines 322-353): the statements of
\* lines 260-289, one for one.
mg_titra_process_data(d, df_p5) == buffer_process_data(d, df_p5)

\* The pieces of a wild-type construct, in order.  After the adapter is trimmed
\* the first reference hairpin starts at position 0 and the second, when the
\* construct has it, at position 57.
WtPieces(ref_hp_2) ==
    <<P5, REF_HP, Strand(IRES, 1), Strand(KINK_TURN, 1), Strand(MOTIF_3X3, 1),
      Strand(WT_TLR, 1), GAAA, Strand(WT_TLR, 2), Strand(MOTIF_3X3, 2),
      Strand(KINK_TURN, 2), Strand(IRES, 2)>>
    \o (IF ref_hp_2 THEN <<REF_HP>> ELSE <<Unpaired(7)>>)
    \o <<P3>>

WtRow(name, exp_name, ref_hp_2) ==
    ("name" :> name) @@ ("exp_name" :> exp_name) @@ RowOf(WtPieces(ref_hp_2))

WtRowPool ==
    { WtRow(n, e, h) :
        n \in BufferNames,
        e \in {"2022_07_19_C0117_Hepes_titra_CM_BL",
               "2022_07_26_minittr-6-2HP-ref_buffer_CM_BL"},
        h \in BOOLEAN }

WtProcessors == {"MTTR6BufferTitrationDataProcessor", "MTTR6MgTitrationDataProcessor"}

InitWt ==
    /\ df \in SeqsUpTo(WtRowPool, MaxRows)
    /\ input = df
    /\ pc = "loaded"
    /\ \E p \in WtProcessors : args = [NoArgs EXCEPT !.op = p]
    /\ result = <<>>
    /\ log = <<>>
    /\ calls = <<>>

MgTitraCleanData ==
    /\ pc = "loaded" /\ args.op = "MTTR6MgTitrationDataProcessor"
    /\ df' = mg_titra_clean_data(df)
    /\ pc' = "cleaned"
    /\ UNCHANGED <<input, args, result, log, calls>>

\* process_data; `result` is the table written by to_json.
BufferProcessData ==
    /\ pc = "cleaned" /\ args.op = "MTTR6BufferTitrationDataProcessor"
    /\ \E l \in PipelineP5Lists :
        LET r == buffer_process_data(df, l)
        IN  /\ args' = [args EXCEPT !.p5 = l]
            /\ df' = r.df
            /\ log' = r.log \o (IF r.raised THEN <<Raised(r.err)>> ELSE <<>>)
            /\ result' = IF r.raised THEN <<>> ELSE r.df
            /\ pc' = IF r.raised THEN "raised" ELSE "done"
    /\ UNCHANGED <<input, calls>>

\* process_data; `result` is the table written by to_json.
MgTitraProcessData ==
    /\ pc = "cleaned" /\ args.op = "MTTR6MgTitrationDataProcessor"
    /\ \E l \in PipelineP5Lists :
        LET r == mg_titra_process_data(df, l)
        IN  /\ args' = [args EXCEPT !.p5 = l]
            /\ df' = r.df
            /\ log' = r.log \o (IF r.raised THEN <<Raised(r.err)>> ELSE <<>>)
            /\ result' = IF r.raised THEN <<>> ELSE r.df
            /\ pc' = IF r.raised THEN "raised" ELSE "done"
    /\ UNCHANGED <<input, calls>>

NextWt == BufferCleanData \/ BufferProcessData \/ MgTitraCleanData \/ MgTitraProcessData

(***************************************************************************)
(* The four processors, each from its loaded table through clean_data to   *)
(* the table process_data writes.                                          *)
(***************************************************************************)
InitProcessors == InitWt \/ InitMuts \/ InitTtr

NextProcessors == NextWt \/ NextMuts \/ NextTtr

SpecProcessors == InitProcessors /\ [][NextProcessors]_vars

(***************************************************************************)
(* Contiguous-run detection: find_stretches (plotting.py:25-43)            *)
(***************************************************************************)
MaxNums == 3
MaxPosition == 4

\* nums.sort(): the elements of the list, repeated ones kept, in ascending order.
RECURSIVE sort(_)
sort(nums) ==
    IF nums = <<>> THEN <<>>
    ELSE LET x == Head(nums)
             rest == sort(Tail(nums))
         IN  SelectSeq(rest, LAMBDA y : y <= x) \o <<x>>
                 \o SelectSeq(rest, LAMBDA y : y > x)

\* The loop of lines 35-40 from the i-th element of the sorted list on, and the
\* append of line 42 after it.
RECURSIVE stretches_loop(_, _, _, _, _)
stretches_loop(nums, i, start, end, stretches) ==
    IF i > Len(nums) THEN Append(stretches, <<start, end>>)
    ELSE IF nums[i] = end + 1
         THEN stretches_loop(nums, i + 1, start, nums[i], stretches)
         ELSE stretches_loop(nums, i + 1, nums[i], nums[i],
                             Append(stretches, <<start, end>>))

\* nums is the list as sort() left it; nums[0] raises IndexError on an empty list.
find_stretches(nums) ==
    IF nums = <<>>
    THEN [raised |-> TRUE, err |-> "IndexError", stretches |-> <<>>]
    ELSE [raised |-> FALSE, err |-> "none",
          stretches |-> stretches_loop(nums, 2, nums[1], nums[1], <<>>)]

\* The position lists a caller passes: any order, repeated positions allowed.
StretchInputs == SeqsUpTo(0..MaxPosition, MaxNums)

InitStretches ==
    /\ df \in StretchInputs
    /\ input = df
    /\ pc = "start"
    /\ args = NoArgs
    /\ result = <<>>
    /\ log = <<>>
    /\ calls = <<>>

\* The list is sorted in place, so the caller's list changes as well.
FindStretches ==
    /\ pc = "start"
    /\ \E sorted \in {sort(df)} :
        LET r == find_stretches(sorted)
        IN  /\ df' = sorted
            /\ result' = r.stretches
            /\ log' = IF r.raised THEN <<Raised(r.err)>> ELSE <<>>
            /\ pc' = IF r.raised THEN "raised" ELSE "done"
    /\ args' = [NoArgs EXCEPT !.op = "find_stretches"]
    /\ UNCHANGED <<input, calls>>

NextStretches == FindStretches

SpecStretches == InitStretches /\ [][NextStretches]_vars

----------------------------------------------------------------------------
\* C1: after trim(df, s, e) with s, e >= 0 and s + e < L for every row, each
\* row's data has length L - s - e and equals the original data sliced from
\* index s to index L - e, as do its sequence and structure.
C1_TrimSlicesData ==
    (pc = "done" /\ args.op = "trim"
        /\ \A k \in DOMAIN input : args.start + args.end < Len(input[k].data))
    => \A k \in DOMAIN df :
        LET L == Len(input[k].data)
            s == args.start
            e == args.end
        IN  /\ Len(df[k].data) = L - s - e
            /\ df[k].data = SubSeq(input[k].data, s + 1, L - e)
            /\ df[k].sequence = SubSeq(input[k].sequence, s + 1, L - e)
            /\ df[k].structure = SubSeq(input[k].structure, s + 1, L - e)

\* The same statement with the call trim(df, 0, 0) left out (it holds).
C1_TrimSlicesDataUnlessZeroZero ==
    (args.start # 0 \/ args.end # 0) => C1_TrimSlicesData

----------------------------------------------------------------------------
\* The number of matches the search of the call returns for row k of its table.
Matches(k) ==
    IF args.op = "motif"
    THEN Len(get_motifs(input[k], args.target))
    ELSE Len(seq_ss_find(input[k], args.target, args.start, args.end))

Ambiguous == \E k \in DOMAIN input : Matches(k) > 1
Missing == \E k \in DOMAIN input : Matches(k) = 0

\* C2: when the search returns more than one match for some row,
\* get_dms_reactivity_for_sub_structure and get_dms_reactivity_for_wt_tlr raise
\* and return nothing, with error=True and with error=False.
C2_AmbiguityAlwaysRaises ==
    (pc # "start" /\ args.op \in {"sub_structure", "wt_tlr"} /\ Ambiguous)
    => (pc = "raised" /\ result = <<>>)

\* Witness of C2: a non-strict call, on a table whose second row holds two
\* copies of the target and whose first row holds one, has raised.
C2_Witness ==
    /\ pc = "raised" /\ args.op \in {"sub_structure", "wt_tlr"}
    /\ ~args.error
    /\ Len(input) = 2 /\ Matches(1) = 1 /\ Matches(2) > 1
    /\ log = <<Raised("multiple copies")>>

\* C3: when the motif search returns more than one match for some row,
\* get_dms_reactivity_for_motif raises, whatever the value of `error`, and
\* returns no vector built from one of the matches.
C3_MotifAmbiguityAlwaysRaises ==
    (pc # "start" /\ args.op = "motif" /\ Ambiguous)
    => (pc = "raised" /\ result = <<>>)

\* What holds of the code: with error=True more than one match raises; with
\* error=False the call returns and the row's vector is built from the first match.
C3_MotifAmbiguityRaisesOnlyWhenStrict ==
    (pc # "start" /\ args.op = "motif" /\ Ambiguous)
    => IF args.error THEN pc = "raised" /\ result = <<>>
       ELSE /\ pc = "done"
            /\ \A k \in DOMAIN input : Matches(k) > 1 =>
                  result[k] = LET pos == Flatten(get_motifs(input[k], args.target)[1].strands)
                              IN  [j \in DOMAIN pos |-> input[k].data[pos[j] + 1]]

\* C4: for a row with zero matches, each of the three extractors raises and
\* returns nothing when error=True; when error=False the row's vector is all -1
\* of length len(sequence) - count('&') of the target, and the loop goes on: the
\* call returns one vector per row unless some row is ambiguous.
C4_NotFoundPolicy ==
    (pc # "start" /\ args.op \in {"motif", "sub_structure", "wt_tlr"} /\ Missing)
    => IF args.error THEN pc = "raised" /\ result = <<>>
       ELSE /\ ~Ambiguous => pc = "done"
            /\ pc = "done" =>
                /\ Len(result) = Len(input)
                /\ \A k \in DOMAIN input : Matches(k) = 0 =>
                      result[k] = [j \in 1..(Len(args.target.sequence)
                                              - Count(args.target.sequence, "&")) |-> -1]

\* Witness of C4: a non-strict search for a two-strand target returned, the
\* first row has no match and the second has one.
C4_Witness ==
    /\ pc = "done" /\ args.op \in {"motif", "sub_structure", "wt_tlr"}
    /\ ~args.error
    /\ "&" \in Range(args.target.sequence)
    /\ Len(input) = 2 /\ Matches(1) = 0 /\ Matches(2) = 1
    /\ Len(result[1]) = 11 /\ Len(result[2]) = 11

\* The strict case of C4: a row without a match made a strict call raise.
C4_StrictRaisedReached ==
    /\ pc = "raised" /\ args.error /\ Missing /\ ~Ambiguous

----------------------------------------------------------------------------
\* The adapters of the (normalised) reference list that every row starts with.
CommonP5(d, df_p5) ==
    {k \in DOMAIN df_p5 : has_5p_sequence(d, to_rna_seq(df_p5[k]))}

\* Row r with n characters dropped at the front and m at the back.
Dropped(r, n, m) ==
    [r EXCEPT !.sequence = SubSeq(@, n + 1, Len(@) - m),
              !.structure = SubSeq(@, n + 1, Len(@) - m),
              !.data = SubSeq(@, n + 1, Len(@) - m)]

\* C6: if exactly one adapter of the reference list is a prefix of every row's
\* sequence, trim_p5_and_p3 selects it and drops its length at the front and
\* 20 at the back of every row; if none is, it raises and trims nothing.
C6_AdapterDiscovery ==
    (pc # "start" /\ args.op = "trim_p5_and_p3") =>
        LET common == CommonP5(input, args.p5)
        IN  /\ Cardinality(common) = 1 =>
                LET p5 == to_rna_seq(args.p5[CHOOSE k \in common : TRUE])
                IN  /\ pc = "done"
                    /\ log = <<Info(p5)>>
                    /\ df = [k \in DOMAIN input |->
                                Dropped(input[k], Len(p5), 20)]
            /\ common = {} =>
                /\ pc = "raised" /\ df = input
                /\ log = <<Raised("No common p5 sequence found")>>

\* Witness of C6: the one common adapter is not the last of a list of two, and
\* a row keeps some of its data.
C6_Witness ==
    /\ pc = "done" /\ args.op = "trim_p5_and_p3"
    /\ Len(args.p5) = 2
    /\ CommonP5(input, args.p5) = {1}
    /\ Len(input) = 2
    /\ \E k \in DOMAIN df : Len(df[k].data) > 0

\* The other case of C6: no adapter is common to two rows, and the call raised.
C6_RaisedReached ==
    /\ pc = "raised" /\ args.op = "trim_p5_and_p3"
    /\ Len(args.p5) = 2 /\ Len(input) = 2

----------------------------------------------------------------------------
\* C8: after MTTR6BufferTitrationDataProcessor.clean_data every remaining row is
\* named minittr-6-2HP-ref and none has one of the three excluded exp_name values.
C8_BufferCleanExcludes ==
    (pc = "cleaned" /\ args.op = "MTTR6BufferTitrationDataProcessor")
    => \A k \in DOMAIN df :
        /\ df[k].name = "minittr-6-2HP-ref"
        /\ df[k].exp_name \notin
              { "2022_07_18_C0117_100mM_buffer_Mg2+_titra_CM_BL",
                "2022_07_18_minittr-6-2HP-ref_NaC_titra_No_MgCl2_CM_RG",
                "2022_07_19_C0117_Hepes_titra_CM_BL" }

\* What holds of the code: the rows of the first excluded experiment stay.
C8_BufferCleanExcludesTwo ==
    (pc = "cleaned" /\ args.op = "MTTR6BufferTitrationDataProcessor")
    => /\ \A k \in DOMAIN df :
            /\ df[k].name = "minittr-6-2HP-ref"
            /\ df[k].exp_name \notin
                  { "2022_07_18_minittr-6-2HP-ref_NaC_titra_No_MgCl2_CM_RG",
                    "2022_07_19_C0117_Hepes_titra_CM_BL" }
       /\ \A k \in DOMAIN input :
            (input[k].name = "minittr-6-2HP-ref"
                /\ input[k].exp_name = "2022_07_18_C0117_100mM_buffer_Mg2+_titra_CM_BL")
            => \E j \in DOMAIN df : df[j].exp_name = input[k].exp_name

----------------------------------------------------------------------------
\* The rows of the input of compute_all_mg_1_2 that are not at 5.0 mM.
Retained == {k \in DOMAIN input : input[k].mg_conc # 500}
RetainedOf(n) == {k \in Retained : input[k].name = n}
RetainedNames == {input[k].name : k \in Retained}

\* C10: compute_all_mg_1_2 drops the rows at mg_conc 5.0, calls the fitter once
\* for each distinct name of the remaining rows, on series without a 5.0 point,
\* and returns exactly one row for each such name, its num_points the number of
\* remaining rows of that name; a name with rows at 5.0 only has no row.
C10_BatchMg12 ==
    (args.op = "compute_all_mg_1_2") =>
        /\ \A i, j \in DOMAIN calls : calls[i].name = calls[j].name => i = j
        /\ \A i \in DOMAIN calls :
              /\ calls[i].name \in RetainedNames
              /\ 500 \notin Range(calls[i].mg_conc)
              /\ Len(calls[i].mg_conc) = Cardinality(RetainedOf(calls[i].name))
        /\ pc = "done" =>
              /\ {calls[i].name : i \in DOMAIN calls} = RetainedNames
              /\ {result[i].name : i \in DOMAIN result} = RetainedNames
              /\ Len(result) = Cardinality(RetainedNames)
              /\ \A i \in DOMAIN result :
                    result[i].num_points = Cardinality(RetainedOf(result[i].name))

\* Witness of C10: one construct has a row at 5.0 only, the other has two
\* retained rows; the fitter was called once and one row came back.
C10_Witness ==
    /\ pc = "done" /\ args.op = "compute_all_mg_1_2"
    /\ Len(input) = 3
    /\ \E k \in DOMAIN input : input[k].mg_conc = 500 /\ input[k].name \notin RetainedNames
    /\ Len(result) = 1 /\ result[1].num_points = 2
    /\ Len(calls) = 1

\* Two constructs retained, one of them also with a 5.0 row.
C10_TwoGroupsReached ==
    /\ pc = "done" /\ args.op = "compute_all_mg_1_2"
    /\ Len(result) = 2 /\ Cardinality(Retained) = 2 /\ Len(input) = 3

----------------------------------------------------------------------------
\* The number of matches of a target in row k of the trimmed table, searched
\* before position `end`.
Found(k, target, end) == Len(seq_ss_find(df[k], target, NoneV, end))

\* process_data got past trim_p5_and_p3: the common adapter was logged.
Trimmed == pc \in {"done", "raised"} /\ Len(log) > 0 /\ log[1].level = "info"

\* No row holds two copies of a target of a directional search of
\* MTTR6MutsDataProcessor.process_data.
MutsUnambiguous ==
    \A k \in DOMAIN df :
        /\ Found(k, GAAA, NoneV) <= 1 /\ Found(k, WT_TLR, NoneV) <= 1
        /\ Found(k, REF_HP, 50) <= 1 /\ Found(k, MOTIF_3X3, NoneV) <= 1
        /\ Found(k, KINK_TURN, NoneV) <= 1

\* A row without a match has the all -1 vector in the column.
Sentinel(k, col, target, n) == Found(k, target, NoneV) = 0 => df[k][col] = [j \in 1..n |-> -1]

\* C7: in MTTR6MutsDataProcessor.process_data only the kink_turn extraction is
\* strict: when every row holds the kink turn (and no search is ambiguous), a
\* row lacking the reference hairpin or another motif does not abort it.
C7_OnlyKinkTurnStrict ==
    (args.op = "MTTR6MutsDataProcessor" /\ Trimmed /\ MutsUnambiguous
        /\ \A k \in DOMAIN df : Found(k, KINK_TURN, NoneV) = 1)
    => pc = "done"

\* C7 as amended: the ref_hp_1 and the kink_turn extractions are strict, the
\* gaaa, tlr, ires and 3x3_motif extractions are not: when no search is
\* ambiguous, process_data ends normally, with -1 vectors for the missing
\* motifs, if every row holds the reference hairpin in its first 50 positions
\* and the kink turn, and raises otherwise.
C7_RefHpAndKinkTurnStrict ==
    (args.op = "MTTR6MutsDataProcessor" /\ Trimmed /\ MutsUnambiguous)
    => IF \A k \in DOMAIN df : Found(k, REF_HP, 50) = 1 /\ Found(k, KINK_TURN, NoneV) = 1
       THEN /\ pc = "done" /\ result = df
            /\ \A k \in DOMAIN df :
                /\ Sentinel(k, "gaaa", GAAA, 6)
                /\ Sentinel(k, "tlr", WT_TLR, 11)
                /\ Sentinel(k, "ires", IRES, 9)
                /\ Sentinel(k, "3x3_motif", MOTIF_3X3, 10)
       ELSE /\ pc = "raised" /\ result = <<>>
            /\ log[Len(log)] = Raised("Could not find")

\* Witness of C7: process_data ended normally on two mutants, one without the
\* tetraloop receptor and the ires motif, the other without the GAAA tetraloop.
C7_Witness ==
    /\ args.op = "MTTR6MutsDataProcessor" /\ pc = "done" /\ Len(df) = 2
    /\ Found(1, WT_TLR, NoneV) = 0 /\ Found(1, IRES, NoneV) = 0
    /\ Found(2, GAAA, NoneV) = 0
    /\ df[1].tlr = [j \in 1..11 |-> -1]

\* The strict cases of C7: a mutant without the reference hairpin, and one
\* without the kink turn, made process_data raise.
C7_RefHpRaisedReached ==
    /\ args.op = "MTTR6MutsDataProcessor" /\ pc = "raised" /\ Trimmed
    /\ Len(df) = 1 /\ Found(1, REF_HP, 50) = 0 /\ Found(1, KINK_TURN, NoneV) = 1

C7_KinkTurnRaisedReached ==
    /\ args.op = "MTTR6MutsDataProcessor" /\ pc = "raised" /\ Trimmed
    /\ Len(df) = 1 /\ Found(1, REF_HP, 50) = 1 /\ Found(1, KINK_TURN, NoneV) = 0

----------------------------------------------------------------------------
\* The rows of the loaded table that TTRMutsDataProcessor.clean_data keeps
\* before it looks for duplicates, and their corrected mg_conc.
Kept ==
    {k \in DOMAIN input :
        /\ input[k].name \notin {"PurRe4L5", "PtrRe2L5", "PurRe2L4"}
        /\ ~(/\ input[k].run_name = "2022_08_29_mtt6_seq"
             /\ input[k].rna_name \in {"mtt6_mutations_set_2_50mM-NaC_0.1-mM-Mg2+",
                                       "mtt6_mutations_set_1_50mM-NaC_5-mM-Mg2+"})}

Corrected(k) == IF input[k].mg_conc = 20 THEN 25 ELSE input[k].mg_conc

\* clean_data ended the process: nothing was rounded, nothing written, and
\* process_data cannot run.
HardStop ==
    /\ pc = "exited" /\ result = <<>>
    /\ \A k \in DOMAIN df : \E j \in DOMAIN input : df[k].data = input[j].data

\* C5: when two rows of the loaded table share (name, mg_conc) and differ in
\* run_name, TTRMutsDataProcessor.clean_data ends the process: it never returns,
\* the data are not rounded and process_data never runs.
C5_LoadedDuplicatesExit ==
    (args.op = "TTRMutsDataProcessor" /\ pc # "loaded"
        /\ \E i, j \in DOMAIN input :
              /\ input[i].name = input[j].name
              /\ input[i].mg_conc = input[j].mg_conc
              /\ input[i].run_name # input[j].run_name)
    => HardStop

\* C5 as amended: the duplicates are looked for among the rows that remain after
\* the 0.20 -> 0.25 correction, the three excluded names and the two
\* (run_name, rna_name) removals.
C5_RemainingDuplicatesExit ==
    (args.op = "TTRMutsDataProcessor" /\ pc # "loaded"
        /\ \E i, j \in Kept :
              /\ input[i].name = input[j].name
              /\ Corrected(i) = Corrected(j)
              /\ input[i].run_name # input[j].run_name)
    => HardStop

\* Witness of C5: the process was ended on two rows that are duplicates only
\* once 0.20 has been corrected to 0.25.
C5_Witness ==
    /\ args.op = "TTRMutsDataProcessor" /\ pc = "exited"
    /\ Len(input) = 2 /\ Kept = {1, 2}
    /\ input[1].mg_conc # input[2].mg_conc
    /\ Len(log) = 2 /\ log[1] = Error("There are duplicates in the data")

\* The number of entries of the reference table with the name of row k.
Hits(k) == Cardinality({r \in DOMAIN args.df_ref : args.df_ref[r].name = input[k].name})

RECURSIVE JoinedRows(_)
JoinedRows(k) == IF k = 0 THEN 0 ELSE JoinedRows(k - 1) + (IF k \in Kept THEN Hits(k) ELSE 0)

\* C9: the merge of TTRMutsDataProcessor.process_data is a left join: every row
\* of the trimmed table is in the joined table, also a row whose name has no
\* entry in the reference table.
C9_LeftJoinKeepsEveryRow ==
    (args.op = "TTRMutsDataProcessor" /\ Trimmed)
    => \A k \in Kept : \E j \in DOMAIN df :
          /\ df[j].name = input[k].name /\ df[j].mg_conc = Corrected(k)
          /\ df[j].run_name = input[k].run_name /\ df[j].rna_name = input[k].rna_name

\* C9 as amended: the merge is an inner join: the joined table holds, for each
\* row of the trimmed table, one row for each entry of the reference table with
\* its name, with that entry's dg, dg_err, act_seq and act_ss; a row whose name
\* has no entry is dropped.
C9_InnerJoin ==
    (args.op = "TTRMutsDataProcessor" /\ Trimmed)
    => /\ Len(df) = JoinedRows(Len(input))
       /\ \A j \in DOMAIN df :
            /\ \E r \in DOMAIN args.df_ref :
                  /\ args.df_ref[r].name = df[j].name
                  /\ args.df_ref[r].dg = df[j].dg
                  /\ args.df_ref[r].dg_err = df[j].dg_err
                  /\ args.df_ref[r].act_seq = df[j].act_seq
                  /\ args.df_ref[r].act_ss = df[j].act_ss
            /\ \E k \in Kept :
                  /\ df[j].name = input[k].name /\ df[j].mg_conc = Corrected(k)
                  /\ df[j].run_name = input[k].run_name
                  /\ df[j].rna_name = input[k].rna_name
       /\ \A k \in Kept :
            Hits(k) > 0 => \E j \in DOMAIN df :
                  /\ df[j].name = input[k].name /\ df[j].mg_conc = Corrected(k)
                  /\ df[j].run_name = input[k].run_name
                  /\ df[j].rna_name = input[k].rna_name

\* Witness of C9: process_data ended normally; of two rows the one without an
\* entry in the reference table is gone and the other is there with its dg.
C9_Witness ==
    /\ args.op = "TTRMutsDataProcessor" /\ pc = "done"
    /\ Kept = {1, 2} /\ Hits(1) = 0 /\ Hits(2) = 1
    /\ Len(result) = 1 /\ result[1].name = input[2].name /\ result[1].dg = -10
    /\ Len(result[1].tlr) = 9

\* A name with two entries in the reference table: its row is there twice.
C9_TwoEntriesReached ==
    /\ args.op = "TTRMutsDataProcessor" /\ pc = "done"
    /\ Kept = {1} /\ Hits(1) = 2 /\ Len(result) = 2

----------------------------------------------------------------------------
\* The positions of the inclusive run <<start, end>>.
Run(s) == s[1]..s[2]

\* The runs partition the set of input positions into maximal runs, in ascending
\* order: each run is non-empty, consecutive runs leave at least one position
\* between them (so they are disjoint and not adjacent), and the union of the
\* runs is the set of input positions.
StretchesPartition ==
    /\ \A k \in DOMAIN result : result[k][1] <= result[k][2]
    /\ \A k \in DOMAIN result : k > 1 => result[k][1] > result[k - 1][2] + 1
    /\ UNION {Run(result[k]) : k \in DOMAIN result} = Range(input)

\* C11: for every non-empty list of integer positions, in any order,
\* find_stretches returns inclusive [start, end] pairs in ascending order that
\* partition the input into maximal runs of consecutive integers: the runs are
\* pairwise disjoint, no two are adjacent or overlapping, and their union is
\* the set of input positions.
C11_StretchesPartition ==
    (pc # "start" /\ args.op = "find_stretches" /\ input # <<>>) =>
        pc = "done" /\ StretchesPartition

\* The same for the lists in which no position is repeated.
C11_DistinctStretchesPartition ==
    (pc # "start" /\ args.op = "find_stretches" /\ input # <<>>
        /\ Cardinality(Range(input)) = Len(input)) =>
        pc = "done" /\ StretchesPartition

\* An unordered list of distinct positions with two runs was processed.
C11_TwoRunsReached ==
    /\ pc = "done" /\ args.op = "find_stretches"
    /\ input = <<3, 0, 1>> /\ result = <<<<0, 1>>, <<3, 3>>>>

\* A list with a repeated position was processed.
C11_RepeatedReached ==
    /\ pc = "done" /\ args.op = "find_stretches"
    /\ input = <<2, 2>> /\ result = <<<<2, 2>>, <<2, 2>>>>

----------------------------------------------------------------------------
\* C13: when more than one adapter of the reference list is a prefix of every
\* row's sequence, trim_p5_and_p3 does not raise and does not choose by length:
\* it selects the last such adapter in list order, logs it, and drops that
\* adapter's length at the front (and 20 at the back) of every row.
C13_LastCommonAdapterWins ==
    (pc # "start" /\ args.op = "trim_p5_and_p3") =>
        LET common == CommonP5(input, args.p5)
        IN  Cardinality(common) > 1 =>
                LET last == CHOOSE k \in common : \A j \in common : j <= k
                    p5 == to_rna_seq(args.p5[last])
                IN  /\ pc = "done"
                    /\ log = <<Info(p5)>>
                    /\ df = [k \in DOMAIN input |->
                                Dropped(input[k], Len(p5), 20)]

\* Witness of C13: both adapters of the list GGA, GG are common to two rows; the
\* shorter one, listed last, was selected and two positions were dropped at the
\* front of a row that keeps some of its data.
C13_Witness ==
    /\ pc = "done" /\ args.op = "trim_p5_and_p3"
    /\ args.p5 = <<<<"G", "G", "A">>, <<"G", "G">>>>
    /\ Len(input) = 2
    /\ CommonP5(input, args.p5) = {1, 2}
    /\ log = <<Info(<<"G", "G">>)>>
    /\ \E k \in DOMAIN df : Len(df[k].data) > 0 /\ df[k].data[1] = 2

\* The other order: the longer adapter is listed last and was selected.
C13_LongerLastReached ==
    /\ pc = "done" /\ args.op = "trim_p5_and_p3"
    /\ args.p5 = <<<<"G", "G">>, <<"G", "G", "A">>>>
    /\ Len(input) = 2
    /\ CommonP5(input, args.p5) = {1, 2}
    /\ log = <<Info(<<"G", "G", "A">>)>>
    /\ \E k \in DOMAIN df : Len(df[k].data) > 0 /\ df[k].data[1] = 3

----------------------------------------------------------------------------
\* The nucleotide count of a target fragment: its length minus its '&'.
NucCount(target) == Len(target.sequence) - Count(target.sequence, "&")

\* The reactivity vector columns of the claim, each with the fragment searched
\* for and the search window of the processors' calls.
VectorCols ==
    ("gaaa" :> [target |-> GAAA, start |-> NoneV, end |-> NoneV])
    @@ ("tlr" :> [target |-> WT_TLR, start |-> NoneV, end |-> NoneV])
    @@ ("ref_hp_1" :> [target |-> REF_HP, start |-> NoneV, end |-> 50])
    @@ ("ref_hp_2" :> [target |-> REF_HP, start |-> 50, end |-> NoneV])
    @@ ("ires" :> [target |-> IRES, start |-> NoneV, end |-> NoneV])
    @@ ("kink_turn" :> [target |-> KINK_TURN, start |-> NoneV, end |-> NoneV])
    @@ ("3x3_motif" :> [target |-> MOTIF_3X3, start |-> NoneV, end |-> NoneV])

\* The fragment the full mutant-library processor searches for in a row.
ActFragment(row) == [sequence |-> row.act_seq, structure |-> row.act_ss]

\* The tlr column of the table TTRMutsDataProcessor writes.
IsTtrTlr(col) == col = "tlr" /\ args.op = "TTRMutsDataProcessor"

\* The fragment and the window a column of a written row was searched with.
SearchOf(row, col) ==
    IF IsTtrTlr(col)
    THEN [target |-> ActFragment(row), start |-> NoneV, end |-> NoneV]
    ELSE VectorCols[col]

\* The column holds the all -1 vector of the fragment's nucleotide count when
\* the row has no match, and otherwise a vector of that length made of values
\* of the row's data.
SentinelOrFull(row, col, s) ==
    IF Len(seq_ss_find(row, s.target, s.start, s.end)) = 0
    THEN row[col] = Repeat(-1, NucCount(s.target))
    ELSE /\ Len(row[col]) = NucCount(s.target)
         /\ \A j \in DOMAIN row[col] : row[col][j] \in Range(row.data)

\* The column holds the matched fragment's data without the last position of
\* one strand and the first of the other: two values fewer than the fragment's
\* nucleotide count, and the row has a match.
TrimmedReceptor(row, col) ==
    /\ Len(seq_ss_find(row, ActFragment(row), NoneV, NoneV)) > 0
    /\ Len(row[col]) = NucCount(ActFragment(row)) - 2
    /\ \A j \in DOMAIN row[col] : row[col][j] \in Range(row.data)

\* process_data of one of the four processors has written its table.
TableWritten ==
    /\ pc = "done"
    /\ args.op \in WtProcessors \cup {"MTTR6MutsDataProcessor", "TTRMutsDataProcessor"}

\* C12: in every table written by a processor's process_data, each of the
\* columns gaaa, tlr, ref_hp_1, ref_hp_2, ires, kink_turn and 3x3_motif holds,
\* in every row, a vector whose length is the nucleotide count of its target
\* fragment: values of the row when the fragment was found, only -1 when not.
C12_SentinelOrFullLength ==
    TableWritten =>
        \A k \in DOMAIN result :
            \A col \in DOMAIN VectorCols \cap DOMAIN result[k] :
                SentinelOrFull(result[k], col, SearchOf(result[k], col))

\* C12 as amended: the same for every such column but the tlr column of the
\* table TTRMutsDataProcessor writes, which holds in every row a vector two
\* values shorter than the nucleotide count of the row's act_seq fragment and
\* never the -1 vector.
C12_SentinelOrFullLengthButTtrTlr ==
    TableWritten =>
        \A k \in DOMAIN result :
            \A col \in DOMAIN VectorCols \cap DOMAIN result[k] :
                IF IsTtrTlr(col) THEN TrimmedReceptor(result[k], col)
                ELSE SentinelOrFull(result[k], col, SearchOf(result[k], col))

\* Witness of C12: MTTR6MutsDataProcessor wrote a table of two rows, the first
\* without the receptor and with the -1 vector of length 11 as tlr, the second
\* with the receptor and its 11 values; both hold the 7 values of the hairpin.
C12_Witness ==
    /\ TableWritten /\ args.op = "MTTR6MutsDataProcessor"
    /\ Len(result) = 2
    /\ result[1].tlr = Repeat(-1, 11)
    /\ Len(result[2].tlr) = 11 /\ -1 \notin Range(result[2].tlr)
    /\ Len(result[1].ref_hp_1) = 7 /\ Len(result[2].ref_hp_1) = 7

\* A wild-type processor wrote a table with both reference hairpins, the second
\* found at position 57 of the trimmed row (59 of the loaded one).
C12_WtTableReached ==
    /\ TableWritten /\ args.op \in WtProcessors
    /\ Len(result) = 2
    /\ result[1].ref_hp_1 = <<2, 3, 4, 5, 6, 7, 8>>
    /\ result[1].ref_hp_2 = <<59, 60, 61, 62, 63, 64, 65>>
    /\ Len(result[1].kink_turn) = 14 /\ Len(result[1].ires) = 9

\* TTRMutsDataProcessor wrote a table whose tlr vector has 9 values for a
\* receptor of 11 nucleotides.
C12_TtrTableReached ==
    /\ TableWritten /\ args.op = "TTRMutsDataProcessor"
    /\ Len(result) > 0
    /\ NucCount(ActFragment(result[1])) = 11
    /\ Len(result[1].tlr) = 9 /\ Len(result[1].gaaa) = 6

====
